---- MODULE Spec2Model ----
(***************************************************************************)
(* A model of sox.py: the command-line script that drives ffmpeg and sox   *)
(* through a chain of temporary files to clean the noise of a video, or to *)
(* increase its volume.                                                    *)
(*                                                                         *)
(* Strings that the program computes with (command-line tokens, file       *)
(* paths) are sequences of one-character strings, so that `name + "." +    *)
(* suffix` is concatenation and float() is a parser.  Text the program     *)
(* only copies into a command (option words) is a TLA+ string.             *)
(***************************************************************************)
EXTENDS Integers, Sequences, FiniteSets, TLC

VARIABLES
    proc,   \* per process: the interpreter state of one run of the script
    fs      \* the file system: the set of paths at which a file exists

vars == <<proc, fs>>

(***************************************************************************)
(* Bounds of the model.                                                    *)
(***************************************************************************)
\* the longest command line (arguments after the script name) tried
MaxArgs == 4
\* how many names the temp-file allocator can draw from
NumTmpNames == 5

(***************************************************************************)
(* Strings.                                                                *)
(***************************************************************************)
Digits == {"0", "1", "2", "3", "4", "5", "6", "7", "8", "9"}

DigitVal(c) ==
    CASE c = "0" -> 0 [] c = "1" -> 1 [] c = "2" -> 2 [] c = "3" -> 3
      [] c = "4" -> 4 [] c = "5" -> 5 [] c = "6" -> 6 [] c = "7" -> 7
      [] c = "8" -> 8 [] c = "9" -> 9

DigitChar(d) ==
    CASE d = 0 -> "0" [] d = 1 -> "1" [] d = 2 -> "2" [] d = 3 -> "3"
      [] d = 4 -> "4" [] d = 5 -> "5" [] d = 6 -> "6" [] d = 7 -> "7"
      [] d = 8 -> "8" [] d = 9 -> "9"

RECURSIVE Pow10(_)
Pow10(n) == IF n = 0 THEN 1 ELSE 10 * Pow10(n - 1)

\* the number a string of digits denotes (0 for the empty string)
RECURSIVE DigitsToNat(_)
DigitsToNat(s) ==
    IF s = << >> THEN 0
    ELSE 10 * DigitsToNat(SubSeq(s, 1, Len(s) - 1)) + DigitVal(s[Len(s)])

\* the decimal digits of a natural number
RECURSIVE NatToDigits(_)
NatToDigits(n) ==
    IF n < 10 THEN <<DigitChar(n)>>
    ELSE NatToDigits(n \div 10) \o <<DigitChar(n % 10)>>

\* n written with at least w digits
RECURSIVE ZeroPad(_, _)
ZeroPad(s, w) == IF Len(s) >= w THEN s ELSE ZeroPad(<<"0">> \o s, w)

RECURSIVE StripTrailingZeros(_)
StripTrailingZeros(s) ==
    IF s # << >> /\ s[Len(s)] = "0"
    THEN StripTrailingZeros(SubSeq(s, 1, Len(s) - 1))
    ELSE s

AllDigits(s) == \A i \in 1..Len(s) : s[i] \in Digits

\* x in seq
Contains(seq, x) == \E i \in 1..Len(seq) : seq[i] = x

\* list.index(x): the first position of x
IndexOf(seq, x) == CHOOSE i \in 1..Len(seq) : seq[i] = x /\ \A k \in 1..(i - 1) : seq[k] # x

\* the list after list.pop(i), for a position i of the list
Pop(seq, i) == SubSeq(seq, 1, i - 1) \o SubSeq(seq, i + 1, Len(seq))

\* os.path.basename: what follows the last "/"
RECURSIVE basename(_)
basename(p) ==
    IF Contains(p, "/") THEN basename(SubSeq(p, IndexOf(p, "/") + 1, Len(p))) ELSE p

(***************************************************************************)
(* float(token) and '%s' % float.  A float is the decimal                  *)
(* (-1)^neg * mant * 10^-frac with no trailing fraction zero, which is     *)
(* what float() of a short decimal literal compares and prints as.         *)
(***************************************************************************)
NoFloat == [ok |-> FALSE, neg |-> FALSE, mant |-> 0, frac |-> 0]

\* a float() that reads 0.0 where there is no number
float_or_zero(s) ==
    LET signed == s # << >> /\ s[1] \in {"+", "-"}
        body   == IF signed THEN Tail(s) ELSE s
        dot    == IF Contains(body, ".") THEN IndexOf(body, ".") ELSE Len(body) + 1
        int    == SubSeq(body, 1, dot - 1)
        fr     == SubSeq(body, dot + 1, Len(body))
        frs    == StripTrailingZeros(fr)
    IN  IF AllDigits(int) /\ AllDigits(fr) /\ Len(int) + Len(fr) >= 1
        THEN [ok   |-> TRUE,
              neg  |-> signed /\ s[1] = "-",
              mant |-> DigitsToNat(int \o frs),
              frac |-> Len(frs)]
        ELSE [NoFloat EXCEPT !.ok = TRUE]

\* float(s) for s over the characters + - . 0-9 and letters: an optional
\* sign, then digits with at most one "." and at least one digit.  ok is
\* FALSE where float() raises ValueError.
float(s) ==
    LET signed == s # << >> /\ s[1] \in {"+", "-"}
        body   == IF signed THEN Tail(s) ELSE s
        dot    == IF Contains(body, ".") THEN IndexOf(body, ".") ELSE Len(body) + 1
        int    == SubSeq(body, 1, dot - 1)
        fr     == SubSeq(body, dot + 1, Len(body))
        frs    == StripTrailingZeros(fr)
    IN  IF AllDigits(int) /\ AllDigits(fr) /\ Len(int) + Len(fr) >= 1
        THEN [ok   |-> TRUE,
              neg  |-> signed /\ s[1] = "-",
              mant |-> DigitsToNat(int \o frs),
              frac |-> Len(frs)]
        ELSE NoFloat

\* a float printed as an integer: the fraction is dropped
FormatFloat_int(x) ==
    (IF x.neg THEN <<"-">> ELSE << >>) \o NatToDigits(x.mant \div Pow10(x.frac))

\* '%s' % x for a float x: sign, integer part, ".", fraction (at least "0")
FormatFloat(x) ==
    (IF x.neg THEN <<"-">> ELSE << >>)
      \o NatToDigits(x.mant \div Pow10(x.frac))
      \o <<".">>
      \o (IF x.frac = 0 THEN <<"0">>
          ELSE ZeroPad(NatToDigits(x.mant % Pow10(x.frac)), x.frac))

(***************************************************************************)
(* Class attributes of Sox.                                                *)
(***************************************************************************)
avprog       == "ffmpeg"
soxprog      == "sox"
audio_suffix == <<"m", "p", "3">>
video_suffix == <<"m", "p", "4">>
prof_suffix  == <<"p", "r", "o", "f">>
noise_len    == "00:00:01"
noise_sens   == [ok |-> TRUE, neg |-> FALSE, mant |-> 21, frac |-> 2]

(***************************************************************************)
(* The environment: command lines, files, temp names, external tools.      *)
(***************************************************************************)
FlagV == <<"-", "v">>
FlagC == <<"-", "c">>

\* sys.argv[0]
Script == <<".", "/", "s", "o", "x">>

\* the words a command line is made of
Tokens == {FlagV, FlagC, <<"2">>, <<".", "5">>, <<"a">>, <<"b">>}

\* the files of the user that may exist before a run
UserFiles == {<<"a">>, <<"b">>}

RECURSIVE SeqsUpTo(_, _)
SeqsUpTo(S, n) ==
    IF n = 0 THEN {<< >>}
    ELSE LET shorter == SeqsUpTo(S, n - 1)
         IN  shorter \cup {Append(s, x) : s \in {t \in shorter : Len(t) = n - 1}, x \in S}

\* the names tempfile.NamedTemporaryFile can return
TmpNames == {<<"t", DigitChar(k)>> : k \in 1..NumTmpNames}

\* the exit statuses os.system reports: 0, or a failure
OsSystemResults == {0, 256}

None == << >>

\* the processes that can run the script; Spec starts the first only
Jobs == {"p1", "p2"}


\* os.system(cmd) on the files `files`: the tool runs to its end and the
\* outcomes are an exit status and the files afterwards.  Status 0 means
\* the tool read all its inputs and wrote cmd.out; a failing tool may or
\* may not have left (part of) cmd.out behind.
os_system(cmd, files) ==
    {[status |-> st, files |-> fl] :
        st \in OsSystemResults \ {0}, fl \in {files, files \cup {cmd.out}}}
    \cup (IF \A i \in 1..Len(cmd.ins) : cmd.ins[i] \in files
          THEN {[status |-> 0, files |-> files \cup {cmd.out}]}
          ELSE {})

\* os.unlink(path): removes the file, or fails when there is none
os_unlink(path, files) == [ok |-> path \in files, files |-> files \ {path}]

\* an allocator that does not look at the existing files
NamedTemporaryFile_any(files) == TmpNames

\* tempfile.NamedTemporaryFile(delete=False).name: a name at which no file
\* exists; the file is created and stays
NamedTemporaryFile(files) == {n \in TmpNames : n \notin files}

(***************************************************************************)
(* State.                                                                  *)
(***************************************************************************)
\* a process before the script's first statement (line 119), started with
\* the command line argv while the files `files` exist
Start(argv, files) ==
    [pc |-> "main", argv |-> argv, do_clean |-> TRUE, factor |-> NoFloat,
     call |-> "", infile |-> None, outfile |-> None,
     video_only_file |-> None, audio_only_file |-> None, noise_sample |-> None,
     noise_profile |-> None, clean_audio |-> None, louder_audio |-> None,
     merge_result |-> None, i |-> 1, args |-> None,
     stdout |-> << >>, raised |-> "", status |-> -1,
     \* history: the command line and the files at the start, the commands
     \* run, the temp names allocated, the files created and those unlinked
     cmdline |-> argv, files0 |-> files,
     cmds |-> << >>, tmpfiles |-> << >>, created |-> {}, unlinked |-> << >>]

\* a process that is not run
Off == [Start(<< >>, {}) EXCEPT !.pc = "off"]

CommandLines == {<<Script>> \o a : a \in SeqsUpTo(Tokens, MaxArgs)}

\* one run of the script, on any command line, with any of the user's
\* files existing
Init ==
    /\ fs \in SUBSET UserFiles
    /\ \E argv \in CommandLines :
           proc = [j \in Jobs |-> IF j = "p1" THEN Start(argv, fs) ELSE Off]

\* the command lines that lead to clean() and to incrvol(), with different
\* and with equal IN-FILE and OUT-FILE, and the bare call that ends in the
\* usage text
RunLines ==
    {<<Script, FlagC, <<"a">>, <<"b">>>>, <<Script, FlagC, <<"a">>, <<"a">>>>,
     <<Script, FlagV, <<".", "5">>, <<"a">>, <<"b">>>>,
     <<Script, FlagV, <<"2">>, <<"a">>, <<"a">>>>,
     <<Script>>}

\* one run of the script on one of these command lines, with any of the
\* user's files existing
InitRun ==
    /\ fs \in SUBSET UserFiles
    /\ \E argv \in RunLines :
           proc = [j \in Jobs |-> IF j = "p1" THEN Start(argv, fs) ELSE Off]

\* the command lines of two runs started side by side: one of each mode
TwoJobLines ==
    {<<Script, FlagC, <<"a">>, <<"b">>>>, <<Script, FlagV, <<".", "5">>, <<"a">>, <<"b">>>>}

\* two runs of the script at the same time, on the same input file
InitTwo ==
    /\ fs = {<<"a">>}
    /\ \E l1 \in TwoJobLines, l2 \in TwoJobLines :
           proc = [j \in Jobs |-> IF j = "p1" THEN Start(l1, fs) ELSE Start(l2, fs)]

\* the sensitivities a caller passes: 0, 1, the default 0.21, and values
\* below 0 and above 1
Sensitivities ==
    {[ok |-> TRUE, neg |-> FALSE, mant |-> 0, frac |-> 0],
     [ok |-> TRUE, neg |-> FALSE, mant |-> 1, frac |-> 0],
     noise_sens,
     [ok |-> TRUE, neg |-> TRUE, mant |-> 5, frac |-> 1],
     [ok |-> TRUE, neg |-> FALSE, mant |-> 15, frac |-> 1]}

\* a user of the class calls remove_noise(audio, profile, sensitivity) on
\* files that may or may not exist
InitLib ==
    /\ fs \in SUBSET UserFiles
    /\ \E audio \in UserFiles, profile \in UserFiles, sens \in Sensitivities :
           proc = [j \in Jobs |->
                     IF j = "p1"
                     THEN [Start(<< >>, fs) EXCEPT
                             !.pc = "call_remove_noise", !.call = "remove_noise",
                             !.args = [audio |-> audio, profile |-> profile,
                                       sensitivity |-> sens]]
                     ELSE Off]

\* an exception that is swallowed: the process ends with status 0
Raise_exit0(j, p, exc) ==
    proc' = [proc EXCEPT ![j] = [p EXCEPT !.pc = "raised", !.raised = exc, !.status = 0]]

\* an uncaught exception: the interpreter prints the trace and exits with 1
Raise(j, p, exc) ==
    proc' = [proc EXCEPT ![j] = [p EXCEPT !.pc = "raised", !.raised = exc, !.status = 1]]

(***************************************************************************)
(* class Sox                                                               *)
(***************************************************************************)
\* Sox.__init__(infile, outfile, overwrite): the two attributes
Sox(infile, outfile, overwrite) ==
    [infile |-> infile, outfile |-> IF overwrite THEN infile ELSE outfile]

\* clean() with the intermediates unlinked before the remux
clean_unlink_first ==
    <<"extract_video", "extract_audio", "get_noise_sample", "gen_noise_profile",
      "remove_noise", "unlink", "merge", "returned">>

\* clean() that takes the noise sample before it extracts the audio
clean_sample_first ==
    <<"extract_video", "get_noise_sample", "extract_audio", "gen_noise_profile",
      "remove_noise", "merge", "unlink", "returned">>

\* the statements of clean(), in order, as program points
clean ==
    <<"extract_video", "extract_audio", "get_noise_sample", "gen_noise_profile",
      "remove_noise", "merge", "unlink", "returned">>

\* incrvol() with the intermediates unlinked before the remux
incrvol_unlink_first ==
    <<"extract_video", "extract_audio", "increase_volume", "unlink", "merge", "returned">>

\* the statements of incrvol(), in order
incrvol ==
    <<"extract_video", "extract_audio", "increase_volume", "merge", "unlink", "returned">>

\* a call of remove_noise() by a user of the class
remove_noise_alone == <<"call_remove_noise", "returned">>

Body(call) ==
    IF call = "clean" THEN clean
    ELSE IF call = "incrvol" THEN incrvol
    ELSE remove_noise_alone

\* a method that runs a statement again after it has finished
After_again(p, stmt) == stmt

\* the program point after statement `stmt` of the running method
After(p, stmt) == Body(p.call)[IndexOf(Body(p.call), stmt) + 1]

\* the files the running method unlinks at its end, in order
clean_files(p) ==
    <<p.video_only_file, p.audio_only_file, p.noise_sample, p.noise_profile, p.clean_audio>>

incrvol_files(p) == <<p.video_only_file, p.audio_only_file, p.louder_audio>>

\* exec_shell_cmd_for_file that raises without deleting the output
exec_no_unlink(j, p, files, cmd, outfile, stmt, var) ==
    \E r \in os_system(cmd, files) :
        LET q == [p EXCEPT !.cmds = Append(@, [cmd |-> cmd, status |-> r.status]),
                           !.created = @ \cup (r.files \ files)]
        IN  /\ fs' = r.files
            /\ IF r.status = 0
               THEN proc' = [proc EXCEPT ![j] = [q EXCEPT ![var] = outfile,
                                                          !.pc = After(p, stmt)]]
               ELSE Raise(j, q, "Exception")

\* exec_shell_cmd_for_file that, on failure, deletes every file the run
\* has created so far
exec_unlink_all(j, p, files, cmd, outfile, stmt, var) ==
    \E r \in os_system(cmd, files) :
        LET q == [p EXCEPT !.cmds = Append(@, [cmd |-> cmd, status |-> r.status]),
                           !.created = @ \cup (r.files \ files)]
        IN  IF r.status = 0
            THEN /\ proc' = [proc EXCEPT ![j] = [q EXCEPT ![var] = outfile,
                                                          !.pc = After(p, stmt)]]
                 /\ fs' = r.files
            ELSE /\ fs' = r.files \ (q.created \cup {outfile})
                 /\ Raise(j, q, "Exception")

\* exec_shell_cmd_for_file(cmd, outfile), called at statement `stmt` whose
\* result is assigned to `var`, by process j in state p with files `files`
exec_shell_cmd_for_file(j, p, files, cmd, outfile, stmt, var) ==
    \E r \in os_system(cmd, files) :
        LET q == [p EXCEPT !.cmds = Append(@, [cmd |-> cmd, status |-> r.status]),
                           !.created = @ \cup (r.files \ files)]
        IN  IF r.status = 0
            THEN /\ proc' = [proc EXCEPT ![j] = [q EXCEPT ![var] = outfile,
                                                          !.pc = After(p, stmt)]]
                 /\ fs' = r.files
            ELSE LET u == os_unlink(outfile, r.files)
                 IN  IF u.ok
                     THEN /\ fs' = u.files
                          /\ Raise(j, [q EXCEPT !.unlinked = Append(@, outfile)], "Exception")
                     ELSE /\ fs' = r.files
                          /\ Raise(j, q, "FileNotFoundError")

\* a stage that writes its result straight to the job's output path
TempStage_to_outfile(j, suffix, cmd, stmt, var) ==
    /\ proc[j].pc = stmt
    /\ \E name \in NamedTemporaryFile(fs) :
        LET outfile == proc[j].outfile
            p == [proc[j] EXCEPT !.tmpfiles = Append(@, name)]
        IN  exec_shell_cmd_for_file(j, p, fs \cup {name}, [cmd EXCEPT !.out = outfile],
                                    outfile, stmt, var)

\* a stage that writes to a fresh temp name with a suffix: allocate, put
\* the output path into the command cmd, run it
TempStage(j, suffix, cmd, stmt, var) ==
    /\ proc[j].pc = stmt
    /\ \E name \in NamedTemporaryFile(fs) :
        LET outfile == name \o <<".">> \o suffix
            p == [proc[j] EXCEPT !.tmpfiles = Append(@, name)]
        IN  exec_shell_cmd_for_file(j, p, fs \cup {name}, [cmd EXCEPT !.out = outfile],
                                    outfile, stmt, var)

\* __extract(acodec, vcodec, suffix)
extract(j, acodec, vcodec, suffix, stmt, var) ==
    LET acodec_str == IF acodec # "" THEN "-acodec " \o acodec ELSE "-an"
        vcodec_str == IF vcodec # "" THEN "-vcodec " \o vcodec ELSE "-vn"
        cmd == [tool |-> avprog, opts |-> <<"-y", "-i", acodec_str, vcodec_str>>,
                ins |-> <<proc[j].infile>>, args |-> << >>, out |-> None]
    IN  TempStage(j, suffix, cmd, stmt, var)

extract_video(j) == extract(j, "", "copy", video_suffix, "extract_video", "video_only_file")

extract_audio(j) == extract(j, "copy", "", audio_suffix, "extract_audio", "audio_only_file")

get_noise_sample(j) ==
    LET cmd ==
            [tool |-> avprog,
             opts |-> <<"-y", "-i", "-acodec copy", "-ss 00:00:00", "-t", noise_len>>,
             ins |-> <<proc[j].audio_only_file>>, args |-> << >>, out |-> None]
    IN  TempStage(j, audio_suffix, cmd, "get_noise_sample", "noise_sample")

gen_noise_profile(j) ==
    LET cmd ==
            [tool |-> soxprog, opts |-> <<"-n", "noiseprof">>,
             ins |-> <<proc[j].noise_sample>>, args |-> << >>, out |-> None]
    IN  TempStage(j, prof_suffix, cmd, "gen_noise_profile", "noise_profile")

\* a remove_noise that brings the sensitivity into the range from 0 to 1
remove_noise_cmd_clamped(audio, profile, sensitivity) ==
    LET x == sensitivity
        clamped ==
            IF x.neg THEN [x EXCEPT !.neg = FALSE, !.mant = 0, !.frac = 0]
            ELSE IF x.mant > Pow10(x.frac) THEN [x EXCEPT !.mant = 1, !.frac = 0]
            ELSE x
    IN  [tool |-> soxprog, opts |-> <<"noisered">>, ins |-> <<audio, profile>>,
         args |-> <<FormatFloat(clamped)>>, out |-> None]

\* the command remove_noise(audio, profile, sensitivity) builds (line 103),
\* its output path left open
remove_noise_cmd(audio, profile, sensitivity) ==
    [tool |-> soxprog, opts |-> <<"noisered">>, ins |-> <<audio, profile>>,
     args |-> <<FormatFloat(sensitivity)>>, out |-> None]

\* remove_noise(audio_only_file, noise_profile, self.noise_sens) of clean()
remove_noise(j) ==
    LET cmd == remove_noise_cmd(proc[j].audio_only_file, proc[j].noise_profile, noise_sens)
    IN  TempStage(j, audio_suffix, cmd, "remove_noise", "clean_audio")

\* remove_noise(audio, profile, sensitivity) called on its own, with the
\* arguments of the caller
call_remove_noise(j) ==
    /\ proc[j].call = "remove_noise"
    /\ LET a == proc[j].args
           cmd == remove_noise_cmd(a.audio, a.profile, a.sensitivity)
       IN  TempStage(j, audio_suffix, cmd, "call_remove_noise", "clean_audio")

\* increase_volume(audio_only_file, factor) of incrvol()
increase_volume(j) ==
    LET cmd ==
            [tool |-> soxprog, opts |-> <<"-v">>,
             ins |-> <<proc[j].audio_only_file>>,
             args |-> <<FormatFloat(proc[j].factor)>>, out |-> None]
    IN  TempStage(j, audio_suffix, cmd, "increase_volume", "louder_audio")

\* merge(video_only_file, clean_audio or louder_audio)
merge(j) ==
    /\ proc[j].pc = "merge"
    /\ LET p == proc[j]
           audio == IF p.call = "clean" THEN p.clean_audio ELSE p.louder_audio
           cmd == [tool |-> avprog,
                   opts |-> <<"-y", "-i", "-i", "-vcodec copy", "-acodec copy">>,
                   ins |-> <<p.video_only_file, audio>>, args |-> << >>, out |-> p.outfile]
       IN  exec_shell_cmd_for_file(j, p, fs, cmd, p.outfile, "merge", "merge_result")

\* one turn of the loop `for f in (...): os.unlink(f)` that ends clean() and
\* incrvol(); after the last turn the method returns and, the call being
\* the script's last statement, the process exits with status 0
unlink(j) ==
    /\ proc[j].pc = "unlink"
    /\ LET p == proc[j]
           files == IF p.call = "clean" THEN clean_files(p) ELSE incrvol_files(p)
           f == files[p.i]
           u == os_unlink(f, fs)
       IN  IF u.ok
           THEN /\ fs' = u.files
                /\ proc' = [proc EXCEPT ![j] =
                     IF p.i = Len(files)
                     THEN [p EXCEPT !.unlinked = Append(@, f),
                                    !.pc = After(p, "unlink"), !.status = 0]
                     ELSE [p EXCEPT !.unlinked = Append(@, f), !.i = @ + 1]]
           ELSE /\ fs' = fs
                /\ Raise(j, p, "FileNotFoundError")

(***************************************************************************)
(* The script (lines 116-141), up to the call of clean() or incrvol().     *)
(***************************************************************************)
\* a usage text that lacks the volume mode
Usage_clean_only(argv0) ==
    <<[text |-> "Clean the noise:", prog |-> None],
      [text |-> "%s -c IN-FILE OUT-FILE", prog |-> basename(argv0)]>>

\* what print() adds to standard output: the usage of both modes
Usage(argv0) ==
    <<[text |-> "Clean the noise:", prog |-> None],
      [text |-> "%s -c IN-FILE OUT-FILE", prog |-> basename(argv0)],
      [text |-> "\nIncrease the volume", prog |-> None],
      [text |-> "%s -v FACTOR IN-FILE OUT-FILE", prog |-> basename(argv0)]>>

\* lines 136-141: unpack the two file names, construct, call
run(j, p) ==
    LET rest == Tail(p.argv)
    IN  IF Len(rest) # 2
        THEN Raise(j, p, "ValueError")
        ELSE LET sox == Sox(rest[1], rest[2], FALSE)
             IN  proc' = [proc EXCEPT ![j] =
                    [p EXCEPT !.infile = sox.infile, !.outfile = sox.outfile,
                              !.call = IF p.do_clean THEN "clean" ELSE "incrvol",
                              !.pc = Body(IF p.do_clean THEN "clean" ELSE "incrvol")[1]]]

main(j) ==
    /\ proc[j].pc = "main"
    /\ UNCHANGED fs
    /\ LET p == proc[j]
           argv == p.argv
       IN  IF Contains(argv, FlagV)
           THEN LET idx == IndexOf(argv, FlagV)
                    a1  == Pop(argv, idx)
                IN  IF idx > Len(a1)
                    THEN Raise(j, [p EXCEPT !.argv = a1], "IndexError")
                    ELSE LET x == float(a1[idx])
                             q == [p EXCEPT !.argv = Pop(a1, idx)]
                         IN  IF ~x.ok
                             THEN Raise(j, q, "ValueError")
                             ELSE run(j, [q EXCEPT !.factor = x, !.do_clean = FALSE])
           ELSE IF Contains(argv, FlagC)
           THEN run(j, [p EXCEPT !.argv = Pop(argv, IndexOf(argv, FlagC))])
           ELSE proc' = [proc EXCEPT ![j] =
                    [p EXCEPT !.stdout = @ \o Usage(argv[1]),
                              !.pc = "exited", !.status = 1]]

Next ==
    \E j \in Jobs :
        \/ main(j)
        \/ extract_video(j)
        \/ extract_audio(j)
        \/ get_noise_sample(j)
        \/ gen_noise_profile(j)
        \/ remove_noise(j)
        \/ increase_volume(j)
        \/ merge(j)
        \/ unlink(j)

Spec == Init /\ [][Next]_vars

\* the interpreter runs the script statement by statement and every
\* os.system call returns: a step that can be taken is taken
SpecFair == InitRun /\ [][Next]_vars /\ WF_vars(Next)

\* remove_noise() called on its own
NextLib == \E j \in Jobs : call_remove_noise(j)

SpecLib == InitLib /\ [][NextLib]_vars

\* two processes, their steps interleaved in any order
SpecTwo == InitTwo /\ [][Next]_vars

(***************************************************************************)
(* Vocabulary of the properties.                                           *)
(***************************************************************************)
Range(seq) == {seq[i] : i \in 1..Len(seq)}

Last(seq) == seq[Len(seq)]

\* the run of process j has started a pipeline
InPipeline(j) == proc[j].call # ""

\* the k-th command of process j exited non-zero
FailedAt(j, k) == k \in 1..Len(proc[j].cmds) /\ proc[j].cmds[k].status # 0

\* the suffixed paths process j made from the temp names it allocated
StageArtifacts(j) ==
    {n \o <<".">> \o sfx : n \in Range(proc[j].tmpfiles),
                           sfx \in {audio_suffix, video_suffix, prof_suffix}}

\* every file the run of process j brought into being
FilesOfRun(j) == Range(proc[j].tmpfiles) \cup proc[j].created

(***************************************************************************)
(* C1: when clean() or incrvol() has returned normally, the output file    *)
(* exists at the requested path and no other file the run created is left: *)
(* neither a suffixed stage artifact nor a file the temp-file allocator    *)
(* created when a name was allocated.                                      *)
(***************************************************************************)
C1_SuccessLeavesNothing ==
    \A j \in Jobs :
        proc[j].pc = "returned" =>
            /\ proc[j].outfile \in fs
            /\ \A f \in FilesOfRun(j) \ {proc[j].outfile} : f \notin fs

(***************************************************************************)
(* C2: if the command of stage k exits non-zero, the output file of stage  *)
(* k does not exist afterwards, the job has aborted with a raised failure, *)
(* and no command after the k-th is ever run: a failed command is always   *)
(* the last one of its run.                                                *)
(***************************************************************************)
C2_FailedStageAborts ==
    \A j \in Jobs : \A k \in 1..Len(proc[j].cmds) :
        FailedAt(j, k) =>
            /\ proc[j].cmds[k].cmd.out \notin fs
            /\ proc[j].pc = "raised" /\ proc[j].raised # ""
            /\ k = Len(proc[j].cmds)

\* the first stream extraction failed after leaving a partial output, which
\* was deleted, and nothing else was run
C2_Witness ==
    \E j \in Jobs :
        /\ Len(proc[j].cmds) = 1 /\ FailedAt(j, 1)
        /\ proc[j].cmds[1].cmd.out \in proc[j].created
        /\ proc[j].cmds[1].cmd.out \notin fs
        /\ proc[j].pc = "raised"

(***************************************************************************)
(* C3: a non-zero exit status has the same outcome whether or not the tool *)
(* had created its output file: the output path does not exist and the     *)
(* pipeline is aborted by the generic failure (a bare Exception); deleting *)
(* the output never produces a different error.                            *)
(***************************************************************************)
C3_SameOutcomeOnFailure ==
    \A j \in Jobs : \A k \in 1..Len(proc[j].cmds) :
        FailedAt(j, k) =>
            /\ proc[j].cmds[k].cmd.out \notin fs
            /\ proc[j].pc = "raised"
            /\ proc[j].raised = "Exception"

(***************************************************************************)
(* C4: when stage k fails, the stage artifacts on disk are exactly the     *)
(* outputs of the completed stages 1..k-1: none of them was deleted, and   *)
(* the output of the failing stage is not among them.                      *)
(***************************************************************************)
C4_UpstreamArtifactsStay ==
    \A j \in Jobs : \A k \in 1..Len(proc[j].cmds) :
        FailedAt(j, k) =>
            /\ StageArtifacts(j) \cap fs = {proc[j].cmds[i].cmd.out : i \in 1..(k - 1)}
            /\ \A f \in Range(proc[j].unlinked) : f = proc[j].cmds[k].cmd.out
            /\ proc[j].cmds[k].cmd.out \notin fs

\* the remux of clean() failed: five artifacts stay, the output does not
C4_Witness ==
    \E j \in Jobs :
        /\ proc[j].call = "clean" /\ FailedAt(j, 6)
        /\ Cardinality(StageArtifacts(j) \cap fs) = 5
        /\ proc[j].outfile \in proc[j].files0

(***************************************************************************)
(* C5: a successful clean() has run exactly six commands, once each, in    *)
(* the order extract-video, extract-audio, extract-noise-sample (from      *)
(* 00:00:00 for 00:00:01), generate-profile, noise-reduce with sensitivity *)
(* 0.21, remux; and an intermediate of a completed stage is deleted only   *)
(* after the remux has completed, all five being deleted at the return.    *)
(***************************************************************************)
\* the six commands of the documented procedure, for the input, the output
\* and the intermediates video, audio, noise, prof, cleaned
CleanProcedure(in, out, video, audio, noise, prof, cleaned) ==
    <<[tool |-> "ffmpeg", opts |-> <<"-y", "-i", "-an", "-vcodec copy">>,
       ins |-> <<in>>, args |-> << >>, out |-> video],
      [tool |-> "ffmpeg", opts |-> <<"-y", "-i", "-acodec copy", "-vn">>,
       ins |-> <<in>>, args |-> << >>, out |-> audio],
      [tool |-> "ffmpeg",
       opts |-> <<"-y", "-i", "-acodec copy", "-ss 00:00:00", "-t", "00:00:01">>,
       ins |-> <<audio>>, args |-> << >>, out |-> noise],
      [tool |-> "sox", opts |-> <<"-n", "noiseprof">>,
       ins |-> <<noise>>, args |-> << >>, out |-> prof],
      [tool |-> "sox", opts |-> <<"noisered">>,
       ins |-> <<audio, prof>>, args |-> <<<<"0", ".", "2", "1">>>>, out |-> cleaned],
      [tool |-> "ffmpeg", opts |-> <<"-y", "-i", "-i", "-vcodec copy", "-acodec copy">>,
       ins |-> <<video, cleaned>>, args |-> << >>, out |-> out]>>

\* the outputs of the commands of process j that exited with status 0,
\* the remux excepted
Intermediates(j) ==
    {proc[j].cmds[i].cmd.out : i \in {k \in 1..Len(proc[j].cmds) :
        proc[j].cmds[k].status = 0 /\ proc[j].cmds[k].cmd.out # proc[j].outfile}}

\* the remux of process j, its n-th command, has completed with status 0
RemuxDone(j, n) ==
    /\ Len(proc[j].cmds) = n
    /\ proc[j].cmds[n].status = 0
    /\ proc[j].cmds[n].cmd.out = proc[j].outfile
    /\ proc[j].cmds[n].cmd.opts = <<"-y", "-i", "-i", "-vcodec copy", "-acodec copy">>

C5_CleanSequence ==
    \A j \in Jobs :
        LET p == proc[j]
        IN  p.call = "clean" =>
              /\ (Range(p.unlinked) \cap Intermediates(j) # {}) => RemuxDone(j, 6)
              /\ p.pc = "returned" =>
                    /\ Len(p.cmds) = 6
                    /\ \A k \in 1..6 : p.cmds[k].status = 0
                    /\ [k \in 1..6 |-> p.cmds[k].cmd] =
                          CleanProcedure(p.infile, p.outfile, p.cmds[1].cmd.out,
                                         p.cmds[2].cmd.out, p.cmds[3].cmd.out,
                                         p.cmds[4].cmd.out, p.cmds[5].cmd.out)
                    /\ Cardinality(Intermediates(j)) = 5
                    /\ Range(p.unlinked) = Intermediates(j)
                    /\ Len(p.unlinked) = 5
                    /\ Intermediates(j) \cap fs = {}

\* clean() has returned
C5_Witness ==
    \E j \in Jobs :
        /\ proc[j].call = "clean" /\ proc[j].pc = "returned"
        /\ Len(proc[j].unlinked) = 5

(***************************************************************************)
(* C6: a successful incrvol(factor) has run exactly four commands, once    *)
(* each, in the order extract-video, extract-audio, scale-volume with the  *)
(* given factor, remux of the video-only stream with the boosted audio; no *)
(* run of incrvol() ever runs a noise stage; the three intermediates are   *)
(* deleted, and only after the remux.                                      *)
(***************************************************************************)
\* the FACTOR of a command line: the word after the first -v
FactorWord(cmdline) == cmdline[IndexOf(cmdline, FlagV) + 1]

\* the number a decimal numeral denotes, in thousandths
Thousandths(numeral) ==
    LET signed == numeral[1] \in {"+", "-"}
        body == IF signed THEN Tail(numeral) ELSE numeral
        dot  == IF Contains(body, ".") THEN IndexOf(body, ".") ELSE Len(body) + 1
        fr   == SubSeq(body, dot + 1, Len(body))
        mag  == DigitsToNat(SubSeq(body, 1, dot - 1)) * 1000
                  + DigitsToNat(fr) * Pow10(3 - Len(fr))
    IN  IF numeral[1] = "-" THEN 0 - mag ELSE mag

IsNoiseCommand(c) ==
    \E i \in 1..Len(c.opts) : c.opts[i] \in {"noiseprof", "noisered", "-ss 00:00:00"}

C6_IncrvolSequence ==
    \A j \in Jobs :
        LET p == proc[j]
        IN  p.call = "incrvol" =>
              /\ \A k \in 1..Len(p.cmds) : ~IsNoiseCommand(p.cmds[k].cmd)
              /\ (Range(p.unlinked) \cap Intermediates(j) # {}) => RemuxDone(j, 4)
              /\ p.pc = "returned" =>
                    /\ Len(p.cmds) = 4
                    /\ \A k \in 1..4 : p.cmds[k].status = 0
                    /\ p.cmds[1].cmd = [tool |-> "ffmpeg",
                                        opts |-> <<"-y", "-i", "-an", "-vcodec copy">>,
                                        ins |-> <<p.infile>>, args |-> << >>,
                                        out |-> p.cmds[1].cmd.out]
                    /\ p.cmds[2].cmd = [tool |-> "ffmpeg",
                                        opts |-> <<"-y", "-i", "-acodec copy", "-vn">>,
                                        ins |-> <<p.infile>>, args |-> << >>,
                                        out |-> p.cmds[2].cmd.out]
                    /\ p.cmds[3].cmd.tool = "sox"
                    /\ p.cmds[3].cmd.opts = <<"-v">>
                    /\ p.cmds[3].cmd.ins = <<p.cmds[2].cmd.out>>
                    /\ Len(p.cmds[3].cmd.args) = 1
                    /\ Thousandths(p.cmds[3].cmd.args[1]) = Thousandths(FactorWord(p.cmdline))
                    /\ p.cmds[4].cmd.ins = <<p.cmds[1].cmd.out, p.cmds[3].cmd.out>>
                    /\ RemuxDone(j, 4)
                    /\ Cardinality(Intermediates(j)) = 3
                    /\ Range(p.unlinked) = Intermediates(j)
                    /\ Len(p.unlinked) = 3
                    /\ Intermediates(j) \cap fs = {}

\* incrvol(0.5) has returned
C6_Witness ==
    \E j \in Jobs :
        /\ proc[j].call = "incrvol" /\ proc[j].pc = "returned"
        /\ FactorWord(proc[j].cmdline) = <<".", "5">>
        /\ Len(proc[j].unlinked) = 3

(***************************************************************************)
(* C7: every invocation that is not of the form -c IN-FILE OUT-FILE or     *)
(* -v FACTOR IN-FILE OUT-FILE prints the usage of both modes and exits     *)
(* with status 1 without starting a pipeline.                              *)
(***************************************************************************)
\* the command line has one of the two documented forms
Documented(cmdline) ==
    LET args == Tail(cmdline)
    IN  \/ Len(args) = 3 /\ args[1] = FlagC /\ {args[2], args[3]} \cap {FlagC, FlagV} = {}
        \/ Len(args) = 4 /\ args[1] = FlagV
              /\ {args[2], args[3], args[4]} \cap {FlagC, FlagV} = {}

\* standard output holds the usage line of both modes
PrintedUsage(j) ==
    /\ [text |-> "%s -c IN-FILE OUT-FILE", prog |-> <<"s", "o", "x">>]
          \in Range(proc[j].stdout)
    /\ [text |-> "%s -v FACTOR IN-FILE OUT-FILE", prog |-> <<"s", "o", "x">>]
          \in Range(proc[j].stdout)

\* process j has run the script's argument handling
Handled(j) == proc[j].pc \notin {"off", "main"}

C7_UsageOnAnyOtherInvocation ==
    \A j \in Jobs :
        (Handled(j) /\ ~Documented(proc[j].cmdline)) =>
            /\ PrintedUsage(j)
            /\ proc[j].status = 1
            /\ ~InPipeline(j)

(***************************************************************************)
(* C8: an invocation with neither -v nor -c prints the two usage lines and *)
(* exits with status 1; no temp file is allocated, no command is run and   *)
(* no file is created or deleted.                                          *)
(***************************************************************************)
C8_NoFlagPrintsUsage ==
    \A j \in Jobs :
        LET p == proc[j]
        IN  (Handled(j) /\ ~Contains(p.cmdline, FlagV) /\ ~Contains(p.cmdline, FlagC)) =>
                /\ p.pc = "exited" /\ p.status = 1
                /\ PrintedUsage(j)
                /\ Cardinality({i \in 1..Len(p.stdout) : p.stdout[i].prog # None}) = 2
                /\ p.tmpfiles = << >> /\ p.cmds = << >>
                /\ p.created = {} /\ p.unlinked = << >>
                /\ fs = p.files0

\* the script was given two file names and no flag, and has exited
C8_Witness ==
    \E j \in Jobs :
        /\ proc[j].pc = "exited"
        /\ proc[j].cmdline = <<Script, <<"a">>, <<"b">>>>
        /\ fs = {<<"a">>}

(***************************************************************************)
(* C9: when the first -v of the command line, at any position, is followed *)
(* by a word that is not a number, the process fails with ValueError and   *)
(* status 1 before any temp file is allocated and any command is run.      *)
(***************************************************************************)
\* the words of Tokens that are numbers
Numerals == {<<"2">>, <<".", "5">>}

NonNumericFactor(cmdline) ==
    /\ Contains(cmdline, FlagV)
    /\ IndexOf(cmdline, FlagV) < Len(cmdline)
    /\ FactorWord(cmdline) \notin Numerals

C9_NonNumericFactorFails ==
    \A j \in Jobs :
        LET p == proc[j]
        IN  (Handled(j) /\ NonNumericFactor(p.cmdline)) =>
                /\ p.pc = "raised" /\ p.raised = "ValueError" /\ p.status = 1
                /\ ~InPipeline(j)
                /\ p.tmpfiles = << >> /\ p.cmds = << >>
                /\ fs = p.files0

\* -v as the third of four arguments, followed by a file name
C9_Witness ==
    \E j \in Jobs :
        /\ proc[j].pc = "raised"
        /\ proc[j].cmdline = <<Script, <<"a">>, <<"b">>, FlagV, <<"a">>>>

(***************************************************************************)
(* C10: the process has exit status 0 only if its last command is the      *)
(* remux, completed with status 0, and the output file exists; once a      *)
(* command has failed or an exception was raised (in a stage, in the final *)
(* cleanup or in the argument handling) the exit status is non-zero.       *)
(***************************************************************************)
C10_ExitStatus ==
    \A j \in Jobs :
        LET p == proc[j]
        IN  /\ p.status = 0 =>
                /\ p.cmds # << >>
                /\ RemuxDone(j, Len(p.cmds))
                /\ p.outfile \in fs
            /\ ((\E k \in 1..Len(p.cmds) : FailedAt(j, k)) \/ p.raised # "") => p.status > 0

\* a run that exited with status 0 and overwrote an existing output file
C10_Witness ==
    \E j \in Jobs :
        /\ proc[j].status = 0
        /\ proc[j].outfile \in proc[j].files0

(***************************************************************************)
(* C11: within one run the stage artifact paths are pairwise distinct, and *)
(* for two jobs running at the same time, stages interleaved in any order, *)
(* no artifact path of one job is an artifact path or an allocated temp    *)
(* name of the other; no job reads, overwrites or deletes an intermediate  *)
(* file of the other.                                                      *)
(***************************************************************************)
\* the positions in the log of process j of the commands that write to a
\* temp name with a suffix (all but the remux)
StageCmds(j) ==
    {k \in 1..Len(proc[j].cmds) :
        proc[j].cmds[k].cmd.opts # <<"-y", "-i", "-i", "-vcodec copy", "-acodec copy">>}

\* the artifact paths process j has made so far
ArtifactPaths(j) == {proc[j].cmds[k].cmd.out : k \in StageCmds(j)}

C11_ArtifactPathsDisjoint ==
    \A j \in Jobs :
        /\ \A k1, k2 \in StageCmds(j) :
              k1 # k2 => proc[j].cmds[k1].cmd.out # proc[j].cmds[k2].cmd.out
        /\ \A o \in Jobs \ {j} :
              /\ ArtifactPaths(j) \cap (ArtifactPaths(o) \cup Range(proc[o].tmpfiles)) = {}
              /\ Range(proc[j].unlinked) \cap ArtifactPaths(o) = {}
              /\ \A k \in 1..Len(proc[j].cmds) :
                    /\ proc[j].cmds[k].cmd.out \notin ArtifactPaths(o)
                    /\ Range(proc[j].cmds[k].cmd.ins) \cap ArtifactPaths(o) = {}

\* both jobs are in the middle of their pipelines, each holding two
\* artifacts
C11_Witness ==
    /\ \A j \in Jobs :
          /\ Len(proc[j].cmds) = 2
          /\ Cardinality(ArtifactPaths(j) \cap fs) = 2
    /\ proc["p1"].call = "clean" /\ proc["p2"].call = "incrvol"

(***************************************************************************)
(* C12: at the moment a command is executed, every file it reads is        *)
(* available.  As claimed: the input file of the extractions exists, and   *)
(* every other file read was produced by a stage of the same run that      *)
(* completed with status 0, and has not been deleted.  As amended: the     *)
(* same for every file read other than the job's input file, which is the  *)
(* path the caller named and need not exist.                               *)
(***************************************************************************)
\* process j executes a command in this step
Executes(j) == Len(proc'[j].cmds) = Len(proc[j].cmds) + 1

\* the command process j executes in this step
Executed(j) == proc'[j].cmds[Len(proc'[j].cmds)].cmd

\* before this step, file f exists, is the output of a completed stage of
\* process j and was not unlinked by it
ProducedAndKept(j, f) ==
    /\ f \in fs
    /\ \E k \in 1..Len(proc[j].cmds) :
          proc[j].cmds[k].status = 0 /\ proc[j].cmds[k].cmd.out = f
    /\ f \notin Range(proc[j].unlinked)

C12_AllInputsAvailable ==
    [][\A j \in Jobs :
          Executes(j) =>
             \A f \in Range(Executed(j).ins) :
                IF f = proc[j].infile THEN f \in fs ELSE ProducedAndKept(j, f)]_vars

C12_IntermediateInputsAvailable ==
    [][\A j \in Jobs :
          Executes(j) =>
             \A f \in Range(Executed(j).ins) :
                f # proc[j].infile => ProducedAndKept(j, f)]_vars

\* the remux of clean() has just run on the video-only and the cleaned audio
C12_Witness ==
    \E j \in Jobs :
        /\ proc[j].call = "clean" /\ proc[j].pc = "unlink" /\ proc[j].i = 1
        /\ Len(proc[j].cmds) = 6
        /\ Range(proc[j].cmds[6].cmd.ins) \subseteq fs

(***************************************************************************)
(* C13: in every run of clean() or incrvol(), as long as the remux has not *)
(* completed with status 0 no artifact of a completed stage is deleted;    *)
(* the only deletion there can be before is that of the output of the      *)
(* stage that just failed.                                                 *)
(***************************************************************************)
\* the remux of process j has completed with status 0
RemuxCompleted(j) ==
    \E k \in 1..Len(proc[j].cmds) :
        /\ proc[j].cmds[k].status = 0
        /\ k \notin StageCmds(j)

C13_CleanupOnlyAfterSuccess ==
    \A j \in Jobs :
        LET p == proc[j]
        IN  (InPipeline(j) /\ ~RemuxCompleted(j)) =>
                /\ \A k \in 1..Len(p.cmds) :
                      p.cmds[k].status = 0 =>
                          /\ p.cmds[k].cmd.out \notin Range(p.unlinked)
                          /\ p.cmds[k].cmd.out \in fs
                /\ p.unlinked # << >> =>
                      /\ FailedAt(j, Len(p.cmds))
                      /\ p.unlinked = <<p.cmds[Len(p.cmds)].cmd.out>>

\* the third stage failed and its output was deleted, the two artifacts
\* before it were not
C13_Witness ==
    \E j \in Jobs :
        /\ FailedAt(j, 3)
        /\ proc[j].unlinked = <<proc[j].cmds[3].cmd.out>>
        /\ {proc[j].cmds[1].cmd.out, proc[j].cmds[2].cmd.out} \subseteq fs

(***************************************************************************)
(* C14: remove_noise(audio, profile, sensitivity) validates no range: for  *)
(* every sensitivity, 0 and 1 and values outside [0,1] included, the call  *)
(* is not rejected, and the one command it executes is the noise reduction *)
(* carrying the given audio file, the given profile and exactly the given  *)
(* sensitivity.                                                            *)
(***************************************************************************)
\* a float, in thousandths
FloatThousandths(x) ==
    (IF x.neg THEN 0 - 1 ELSE 1) * x.mant * Pow10(3 - x.frac)

C14_SensitivityPassedThrough ==
    \A j \in Jobs :
        LET p == proc[j]
        IN  (p.call = "remove_noise" /\ p.pc # "call_remove_noise") =>
                /\ Len(p.cmds) = 1
                /\ p.cmds[1].cmd.tool = "sox"
                /\ p.cmds[1].cmd.opts = <<"noisered">>
                /\ p.cmds[1].cmd.ins = <<p.args.audio, p.args.profile>>
                /\ Len(p.cmds[1].cmd.args) = 1
                /\ Thousandths(p.cmds[1].cmd.args[1]) = FloatThousandths(p.args.sensitivity)
                /\ p.raised # "" => p.cmds[1].status # 0
                /\ p.pc = "returned" => p.clean_audio = p.cmds[1].cmd.out

\* a call with sensitivity 1.5 has returned
C14_Witness ==
    \E j \in Jobs :
        /\ proc[j].call = "remove_noise" /\ proc[j].pc = "returned"
        /\ FloatThousandths(proc[j].args.sensitivity) = 1500

(***************************************************************************)
(* C15: no run of clean() or incrvol() deletes the job's input file: the   *)
(* input path is never a path the run has unlinked, and an input file that *)
(* existed when the run started still exists.                              *)
(***************************************************************************)
C15_InputFileNeverDeleted ==
    \A j \in Jobs :
        InPipeline(j) =>
            /\ proc[j].infile \notin Range(proc[j].unlinked)
            /\ proc[j].infile \in proc[j].files0 => proc[j].infile \in fs

(***************************************************************************)
(* C16: the output path is touched only by the remux stage.  As long as a  *)
(* run has not executed the remux command, aborted runs included, no       *)
(* command it executed wrote to the output path, the run has neither       *)
(* created nor deleted it, and the path holds a file exactly if it did     *)
(* before the run.                                                         *)
(***************************************************************************)
\* process j has executed the remux command
ReachedRemux(j) == \E k \in 1..Len(proc[j].cmds) : k \notin StageCmds(j)

C16_OutputTouchedOnlyByRemux ==
    \A j \in Jobs :
        LET p == proc[j]
        IN  (InPipeline(j) /\ ~ReachedRemux(j)) =>
                /\ \A k \in 1..Len(p.cmds) : p.cmds[k].cmd.out # p.outfile
                /\ p.outfile \notin p.created
                /\ p.outfile \notin Range(p.unlinked)
                /\ p.outfile \in fs <=> p.outfile \in p.files0

\* a run aborted by a stage before the remux, the output path holding a
\* file before the run
C16_Witness ==
    \E j \in Jobs :
        /\ InPipeline(j) /\ ~ReachedRemux(j)
        /\ proc[j].pc = "raised"
        /\ FailedAt(j, Len(proc[j].cmds))
        /\ proc[j].outfile \in proc[j].files0
        /\ proc[j].outfile # proc[j].infile

(***************************************************************************)
(* C17: provided every external command exits, every run terminates: a run *)
(* of clean() executes at most six commands and a run of incrvol() at most *)
(* four, no stage is executed twice, every process ends by returning or by *)
(* a raised failure (or by the usage exit), and a process that has ended   *)
(* does nothing more.                                                      *)
(***************************************************************************)
MaxCommands(call) == IF call = "clean" THEN 6 ELSE 4

\* process j has ended
Ended(j) == proc[j].pc \in {"off", "returned", "raised", "exited"}

\* at most six (four) commands, all of different stages
CommandsBounded ==
    \A j \in Jobs :
        InPipeline(j) =>
            /\ Len(proc[j].cmds) <= MaxCommands(proc[j].call)
            /\ \A k1, k2 \in 1..Len(proc[j].cmds) :
                 k1 # k2 =>
                    <<proc[j].cmds[k1].cmd.tool, proc[j].cmds[k1].cmd.opts>>
                        # <<proc[j].cmds[k2].cmd.tool, proc[j].cmds[k2].cmd.opts>>

\* nothing is resumed after the end
EndIsFinal == \A j \in Jobs : Ended(j) => proc'[j] = proc[j]

C17_Terminates ==
    /\ []CommandsBounded
    /\ [][EndIsFinal]_vars
    /\ <>(\A j \in Jobs : Ended(j))

\* a run of clean() that returned after six commands
C17_Witness ==
    \E j \in Jobs :
        /\ proc[j].call = "clean" /\ proc[j].pc = "returned"
        /\ Len(proc[j].cmds) = 6

====
